---- MODULE Spec2Model ----
(***************************************************************************)
(* rl-teacher-atari: the driver rl_teacher/teach.py (main,                 *)
(* make_comparison_predictor, pretrain_predictor) and the reward networks  *)
(* of rl_teacher/nn.py.  The comparison collector and the label schedule   *)
(* live in rl_teacher/comparison_collectors.py and                         *)
(* rl_teacher/label_schedules.py; they are modelled from their documented  *)
(* contract.                                                               *)
(***************************************************************************)
EXTENDS Integers, Sequences, FiniteSets, TLC

VARIABLES
    \* ---- teach.py: main() and the functions it calls
    args,                 \* the parsed command line (teach.py:77-92)
    pc,                   \* position of main()
    summary_writer,       \* make_summary_writer(run_name) has returned
    env,                  \* make_env(env_id) has returned
    dirs,                 \* directories created by os.makedirs
    n_pretrain_labels,    \* main()'s local, None until line 109 has assigned it
    agent_logger,         \* AgentLogger(summary_writer) has been built
    label_schedule,       \* the schedule make_comparison_predictor built
    comparison_collector, \* the collector make_comparison_predictor built
    predictor,            \* main()'s local `predictor`
    loaded,               \* predictor.load_model_from_checkpoint() has returned
    pretrain,             \* progress of pretrain_predictor
    Ga3cConfig,           \* the process-wide GA3C configuration
    trainer,              \* the trainer that was started and what it was given
    error,                \* the exception that ended main(), if any
    \* ---- comparison collector
    collector_kind, segments, comparisons, last_goal, last_return,
    \* ---- label schedule
    sched, progress, desired, prev_desired, queried,
    \* ---- nn.py: SimpleConvolveObservationQNet
    obs_shape, act_shape, net_pc, input_dim, features, run_error

driverVars == <<args, pc, summary_writer, env, dirs, n_pretrain_labels, agent_logger,
                label_schedule, comparison_collector, predictor, loaded, pretrain,
                Ga3cConfig, trainer, error>>
collectorVars == <<collector_kind, segments, comparisons, last_goal, last_return>>
schedVars == <<sched, progress, desired, prev_desired, queried>>
netVars == <<obs_shape, act_shape, net_pc, input_dim, features, run_error>>
vars == <<driverVars, collectorVars, schedVars, netVars>>

----------------------------------------------------------------------------
(* Bounds *)
MaxLabels == 5        \* largest --n_labels tried
MaxPretrain == 6      \* largest --pretrain_labels tried (may exceed MaxLabels)
MaxIters == 2         \* largest --pretrain_iters tried
MaxTimesteps == 3     \* largest --num_timesteps tried
MaxProgress == 4      \* largest number of elapsed timesteps tried
MaxSegments == 2      \* largest segment pool
MaxComparisons == 2   \* largest comparison pool
MaxGoal == 2          \* largest labeling goal
MaxDim == 14          \* largest observation height / width
MaxActDim == 2        \* largest extent of one action axis

----------------------------------------------------------------------------
(* Python values *)
None == <<>>
Some(v) == <<v>>
\* Python truthiness of an Optional[int]: None and 0 are false
Truthy(x) == x # None /\ x[1] # 0

PredictorKinds == {"rl", "synth", "human"}
AgentKinds == {"ga3c", "parallel_trpo", "pposgd_mpi"}

OptInts(max) == {None} \cup {Some(v) : v \in 0..max}

\* argparse: -p, -a are free strings; -l, -L are optional ints; -V, -R are flags
ArgsSpace ==
    [predictor : PredictorKinds \cup {"bogus"},
     agent : AgentKinds \cup {"bogus"},
     n_labels : OptInts(MaxLabels),
     pretrain_labels : OptInts(MaxPretrain),
     pretrain_iters : {MaxIters},
     num_timesteps : {MaxTimesteps},
     workers : {4},
     no_videos : BOOLEAN,
     restore : BOOLEAN]

NoSchedule == [kind |-> "none", pretrain_labels |-> None, final_labels |-> None, final_timesteps |-> None]
ConstantLabelSchedule(pl) ==
    [kind |-> "constant", pretrain_labels |-> pl, final_labels |-> None, final_timesteps |-> None]
LabelAnnealer(ft, fl, pl) ==
    [kind |-> "annealed", pretrain_labels |-> pl, final_labels |-> fl, final_timesteps |-> ft]

NoPredictor == [kind |-> "none", wrapped |-> FALSE]
NoTrainer == [name |-> "none", predictor |-> NoPredictor]
NoPretrain == [called |-> FALSE, cleared |-> FALSE, sampled |-> 0, sample_workers |-> None,
               added |-> 0, invented |-> 0, label_goal |-> None, trained |-> 0,
               returned |-> FALSE, raised |-> FALSE]
Ga3cDefault == [set |-> FALSE, LOAD_CHECKPOINT |-> FALSE, AGENTS |-> 0]

----------------------------------------------------------------------------
(* teach.py: main() *)

DriverInit ==
    /\ args \in ArgsSpace
    /\ pc = "make_summary_writer"
    /\ summary_writer = FALSE
    /\ env = FALSE
    /\ dirs = {}
    /\ n_pretrain_labels = None
    /\ agent_logger = FALSE
    /\ label_schedule = NoSchedule
    /\ comparison_collector = "none"
    /\ predictor = NoPredictor
    /\ loaded = FALSE
    /\ pretrain = NoPretrain
    /\ Ga3cConfig = Ga3cDefault
    /\ trainer = NoTrainer
    /\ error = "none"

\* an uncaught exception ends main()
Raise(e) == pc' = "error" /\ error' = e

\* teach.py:98  summary_writer = make_summary_writer(run_name)
MakeSummaryWriter ==
    /\ pc = "make_summary_writer"
    /\ summary_writer' = TRUE
    /\ pc' = "make_env"
    /\ UNCHANGED <<collectorVars, schedVars, netVars>>
    /\ UNCHANGED <<args, env, dirs, n_pretrain_labels, agent_logger, label_schedule,
                   comparison_collector, predictor, loaded, pretrain, Ga3cConfig, trainer, error>>

\* teach.py:99  env = make_env(env_id)
MakeEnv ==
    /\ pc = "make_env"
    /\ env' = TRUE
    /\ pc' = "makedirs_checkpoints"
    /\ UNCHANGED <<collectorVars, schedVars, netVars>>
    /\ UNCHANGED <<args, summary_writer, dirs, n_pretrain_labels, agent_logger, label_schedule,
                   comparison_collector, predictor, loaded, pretrain, Ga3cConfig, trainer, error>>

\* teach.py:102  os.makedirs('checkpoints/reward_model', exist_ok=True)
MakeCheckpointDir ==
    /\ pc = "makedirs_checkpoints"
    /\ dirs' = dirs \cup {"checkpoints/reward_model"}
    /\ pc' = "makedirs_segments"
    /\ UNCHANGED <<collectorVars, schedVars, netVars>>
    /\ UNCHANGED <<args, summary_writer, env, n_pretrain_labels, agent_logger, label_schedule,
                   comparison_collector, predictor, loaded, pretrain, Ga3cConfig, trainer, error>>

\* teach.py:103  os.makedirs('segments', exist_ok=True)
MakeSegmentsDir ==
    /\ pc = "makedirs_segments"
    /\ dirs' = dirs \cup {"segments"}
    /\ pc' = "make_predictor"
    /\ UNCHANGED <<collectorVars, schedVars, netVars>>
    /\ UNCHANGED <<args, summary_writer, env, n_pretrain_labels, agent_logger, label_schedule,
                   comparison_collector, predictor, loaded, pretrain, Ga3cConfig, trainer, error>>

\* teach.py:106-107  if args.predictor == "rl": predictor = TraditionalRLRewardPredictor(...)
MakeTraditionalPredictor ==
    /\ pc = "make_predictor"
    /\ args.predictor = "rl"
    /\ predictor' = [kind |-> "traditional", wrapped |-> FALSE]
    /\ pc' = "wrap_video"
    /\ UNCHANGED <<collectorVars, schedVars, netVars>>
    /\ UNCHANGED <<args, summary_writer, env, dirs, n_pretrain_labels, agent_logger, label_schedule,
                   comparison_collector, loaded, pretrain, Ga3cConfig, trainer, error>>

\* teach.py:109  args.pretrain_labels if args.pretrain_labels else args.n_labels // 4
\* (None when the expression raises TypeError: None // 4)
PretrainLabelsExpr(a) ==
    IF Truthy(a.pretrain_labels) THEN a.pretrain_labels
    ELSE IF a.n_labels = None THEN None
    ELSE Some(a.n_labels[1] \div 4)

\* teach.py:108-109  else: n_pretrain_labels = ...
ComputePretrainLabels ==
    /\ pc = "make_predictor"
    /\ args.predictor # "rl"
    /\ IF PretrainLabelsExpr(args) = None
       THEN /\ Raise("TypeError")
            /\ UNCHANGED n_pretrain_labels
       ELSE /\ n_pretrain_labels' = PretrainLabelsExpr(args)
            /\ pc' = "mcp_agent_logger"
            /\ UNCHANGED error
    /\ UNCHANGED <<collectorVars, schedVars, netVars>>
    /\ UNCHANGED <<args, summary_writer, env, dirs, agent_logger, label_schedule,
                   comparison_collector, predictor, loaded, pretrain, Ga3cConfig, trainer>>

----------------------------------------------------------------------------
(* teach.py: make_comparison_predictor *)

\* teach.py:24  agent_logger = AgentLogger(summary_writer)
MakeAgentLogger ==
    /\ pc = "mcp_agent_logger"
    /\ agent_logger' = TRUE
    /\ pc' = "mcp_label_schedule"
    /\ UNCHANGED <<collectorVars, schedVars, netVars>>
    /\ UNCHANGED <<args, summary_writer, env, dirs, n_pretrain_labels, label_schedule,
                   comparison_collector, predictor, loaded, pretrain, Ga3cConfig, trainer, error>>

\* The names make_comparison_predictor can resolve: its parameters and the module's
\* globals.  num_timesteps is assigned only as a local of main() (teach.py:100).
McpNames == {"env", "experiment_name", "predictor_type", "summary_writer", "clip_length",
             "n_pretrain_labels", "n_labels", "agent_logger",
             "LabelAnnealer", "ConstantLabelSchedule", "AgentLogger"}

\* teach.py:26-34  if n_labels: LabelAnnealer(...) else: ConstantLabelSchedule(...)
MakeLabelSchedule ==
    /\ pc = "mcp_label_schedule"
    /\ IF Truthy(args.n_labels)
       THEN IF "num_timesteps" \in McpNames
            THEN /\ label_schedule' = LabelAnnealer(Some(args.num_timesteps), args.n_labels,
                                                    n_pretrain_labels)
                 /\ pc' = "mcp_collector"
                 /\ UNCHANGED error
            ELSE /\ Raise("NameError: num_timesteps")
                 /\ UNCHANGED label_schedule
       ELSE /\ label_schedule' = ConstantLabelSchedule(n_pretrain_labels)
            /\ pc' = "mcp_collector"
            /\ UNCHANGED error
    /\ UNCHANGED <<collectorVars, schedVars, netVars>>
    /\ UNCHANGED <<args, summary_writer, env, dirs, n_pretrain_labels, agent_logger,
                   comparison_collector, predictor, loaded, pretrain, Ga3cConfig, trainer>>

\* teach.py:36-41  the collector by predictor_type, ValueError for any other value
MakeCollector ==
    /\ pc = "mcp_collector"
    /\ IF args.predictor \in {"synth", "human"}
       THEN /\ comparison_collector' = args.predictor
            /\ pc' = "mcp_return"
            /\ UNCHANGED error
       ELSE /\ Raise("ValueError: --predictor")
            /\ UNCHANGED comparison_collector
    /\ UNCHANGED <<collectorVars, schedVars, netVars>>
    /\ UNCHANGED <<args, summary_writer, env, dirs, n_pretrain_labels, agent_logger,
                   label_schedule, predictor, loaded, pretrain, Ga3cConfig, trainer>>

\* teach.py:43-51, 110  predictor = ComparisonRewardPredictor(...)
MakeComparisonPredictor ==
    /\ pc = "mcp_return"
    /\ predictor' = [kind |-> "comparison", wrapped |-> FALSE]
    /\ pc' = "restore_or_pretrain"
    /\ UNCHANGED <<collectorVars, schedVars, netVars>>
    /\ UNCHANGED <<args, summary_writer, env, dirs, n_pretrain_labels, agent_logger, label_schedule,
                   comparison_collector, loaded, pretrain, Ga3cConfig, trainer, error>>

----------------------------------------------------------------------------
(* teach.py: main(), restore or pretrain *)

\* RestorePredictor without the load: main() goes on with untrained weights
RestorePredictor_without_load ==
    /\ pc = "restore_or_pretrain"
    /\ args.restore
    /\ pc' = "wrap_video"
    /\ UNCHANGED <<collectorVars, schedVars, netVars>>
    /\ UNCHANGED <<args, summary_writer, env, dirs, n_pretrain_labels, agent_logger, label_schedule,
                   comparison_collector, predictor, loaded, pretrain, Ga3cConfig, trainer, error>>

\* teach.py:113-115  if args.restore: predictor.load_model_from_checkpoint()
RestorePredictor ==
    /\ pc = "restore_or_pretrain"
    /\ args.restore
    /\ loaded' = TRUE
    /\ pc' = "wrap_video"
    /\ UNCHANGED <<collectorVars, schedVars, netVars>>
    /\ UNCHANGED <<args, summary_writer, env, dirs, n_pretrain_labels, agent_logger, label_schedule,
                   comparison_collector, predictor, pretrain, Ga3cConfig, trainer, error>>

\* teach.py:116-117, 54  else: pretrain_predictor(...): predictor.comparison_collector.clear_old_data()
PretrainClearOldData ==
    /\ pc = "restore_or_pretrain"
    /\ ~args.restore
    /\ pretrain' = [pretrain EXCEPT !.called = TRUE, !.cleared = TRUE]
    /\ pc' = "pretrain_rollouts"
    /\ UNCHANGED <<collectorVars, schedVars, netVars>>
    /\ UNCHANGED <<args, summary_writer, env, dirs, n_pretrain_labels, agent_logger, label_schedule,
                   comparison_collector, predictor, loaded, Ga3cConfig, trainer, error>>

\* The names pretrain_predictor can resolve: its parameters, its locals and the module's
\* globals.  args is assigned only as a local of main() (teach.py:92).
PretrainNames == {"predictor", "env_id", "n_pretrain_labels", "n_pretrain_iters", "clip_length",
                  "workers", "pretrain_segments", "seg", "i",
                  "segments_from_rand_rollout", "make_env"}

\* teach.py:57-74  the rest of pretrain_predictor: the arguments of
\* segments_from_rand_rollout are evaluated first, workers=args.workers among them
PretrainRollouts ==
    /\ pc = "pretrain_rollouts"
    /\ IF "args" \in PretrainNames
       THEN /\ pretrain' = [pretrain EXCEPT
                               !.sampled = n_pretrain_labels[1] * 2,
                               !.sample_workers = Some(args.workers),
                               !.added = n_pretrain_labels[1] * 2,
                               !.invented = n_pretrain_labels[1],
                               !.label_goal = n_pretrain_labels,
                               !.trained = args.pretrain_iters,
                               !.returned = TRUE]
            /\ pc' = "wrap_video"
            /\ UNCHANGED error
       ELSE /\ pretrain' = [pretrain EXCEPT !.raised = TRUE]
            /\ Raise("NameError: args")
    /\ UNCHANGED <<collectorVars, schedVars, netVars>>
    /\ UNCHANGED <<args, summary_writer, env, dirs, n_pretrain_labels, agent_logger, label_schedule,
                   comparison_collector, predictor, loaded, Ga3cConfig, trainer>>

----------------------------------------------------------------------------
(* teach.py: main(), video wrapper and trainer dispatch *)

\* WrapVideo that ignores --no_videos
WrapVideo_always ==
    /\ pc = "wrap_video"
    /\ predictor' = [predictor EXCEPT !.wrapped = TRUE]
    /\ pc' = "dispatch"
    /\ UNCHANGED <<collectorVars, schedVars, netVars>>
    /\ UNCHANGED <<args, summary_writer, env, dirs, n_pretrain_labels, agent_logger, label_schedule,
                   comparison_collector, loaded, pretrain, Ga3cConfig, trainer, error>>

\* teach.py:120-122  if not args.no_videos: predictor = SegmentVideoRecorder(predictor, ...)
WrapVideo ==
    /\ pc = "wrap_video"
    /\ predictor' = [predictor EXCEPT !.wrapped = ~args.no_videos]
    /\ pc' = "dispatch"
    /\ UNCHANGED <<collectorVars, schedVars, netVars>>
    /\ UNCHANGED <<args, summary_writer, env, dirs, n_pretrain_labels, agent_logger, label_schedule,
                   comparison_collector, loaded, pretrain, Ga3cConfig, trainer, error>>

\* teach.py:125-133  Ga3cConfig.* = ...; Ga3cServer(predictor).main()
StartGa3c ==
    /\ pc = "dispatch"
    /\ args.agent = "ga3c"
    /\ Ga3cConfig' = [set |-> TRUE, LOAD_CHECKPOINT |-> args.restore, AGENTS |-> args.workers]
    /\ trainer' = [name |-> "ga3c", predictor |-> predictor]
    /\ pc' = "training"
    /\ UNCHANGED <<collectorVars, schedVars, netVars>>
    /\ UNCHANGED <<args, summary_writer, env, dirs, n_pretrain_labels, agent_logger, label_schedule,
                   comparison_collector, predictor, loaded, pretrain, error>>

\* teach.py:134-146  train_parallel_trpo(..., predictor=predictor, ...)
StartParallelTrpo ==
    /\ pc = "dispatch"
    /\ args.agent = "parallel_trpo"
    /\ trainer' = [name |-> "parallel_trpo", predictor |-> predictor]
    /\ pc' = "training"
    /\ UNCHANGED <<collectorVars, schedVars, netVars>>
    /\ UNCHANGED <<args, summary_writer, env, dirs, n_pretrain_labels, agent_logger, label_schedule,
                   comparison_collector, predictor, loaded, pretrain, Ga3cConfig, error>>

\* teach.py:147-148  train_pposgd_mpi(..., predictor=predictor)
StartPposgdMpi ==
    /\ pc = "dispatch"
    /\ args.agent = "pposgd_mpi"
    /\ trainer' = [name |-> "pposgd_mpi", predictor |-> predictor]
    /\ pc' = "training"
    /\ UNCHANGED <<collectorVars, schedVars, netVars>>
    /\ UNCHANGED <<args, summary_writer, env, dirs, n_pretrain_labels, agent_logger, label_schedule,
                   comparison_collector, predictor, loaded, pretrain, Ga3cConfig, error>>

\* teach.py:149-150  else: raise ValueError(... not a valid choice for args.agent)
BadAgent ==
    /\ pc = "dispatch"
    /\ args.agent \notin AgentKinds
    /\ Raise("ValueError: args.agent")
    /\ UNCHANGED <<collectorVars, schedVars, netVars>>
    /\ UNCHANGED <<args, summary_writer, env, dirs, n_pretrain_labels, agent_logger, label_schedule,
                   comparison_collector, predictor, loaded, pretrain, Ga3cConfig, trainer>>

----------------------------------------------------------------------------
(* Comparison collector (rl_teacher.comparison_collectors), from its contract:       *)
(* add_segment, invent_comparison, label_unlabeled_comparisons(goal), clear_old_data *)

Labels == {"left", "right", "equal"}

\* the true cumulative rewards a segment may have: a low and a high one
TrueRewards == {0, 1}

CollectorInit ==
    /\ collector_kind \in {"synth", "human"}
    /\ segments = <<>>
    /\ comparisons = <<>>
    /\ last_goal = 0
    /\ last_return = 0

\* add_segment(segment): a segment is immutable and is kept as its true cumulative reward
add_segment ==
    /\ Len(segments) < MaxSegments
    /\ \E r \in TrueRewards : segments' = Append(segments, r)
    /\ UNCHANGED <<collector_kind, comparisons, last_goal, last_return>>
    /\ UNCHANGED <<driverVars, schedVars, netVars>>

\* invent_comparison(): an unlabeled comparison of two distinct segments added before
invent_comparison ==
    /\ Len(segments) >= 2
    /\ Len(comparisons) < MaxComparisons
    /\ \E l \in 1..Len(segments), r \in 1..Len(segments) :
          /\ l # r
          /\ comparisons' = Append(comparisons,
                 [left |-> segments[l], right |-> segments[r], label |-> "unlabeled"])
    /\ UNCHANGED <<collector_kind, segments, last_goal, last_return>>
    /\ UNCHANGED <<driverVars, schedVars, netVars>>

\* the synthetic oracle: the segment of higher true reward is preferred, a tie is equal
SyntheticLabel(c) ==
    IF c.left > c.right THEN "left"
    ELSE IF c.left < c.right THEN "right"
    ELSE "equal"

\* what the labeler may answer for comparison c: the oracle answers at once; a human
\* answers anything, or never answers and the comparison stays unlabeled
Answers(c) ==
    IF c.label # "unlabeled" THEN {c.label}
    ELSE IF collector_kind = "synth" THEN {SyntheticLabel(c)}
    ELSE Labels \cup {"unlabeled"}

NumLabeled(cs) == Cardinality({i \in 1..Len(cs) : cs[i].label # "unlabeled"})

\* KeepLabeling that labels everything unlabeled, whatever the goal
KeepLabeling_ignoring_goal(cs, goal) == TRUE

\* the labeling loop condition: go on while fewer than goal comparisons are labeled
KeepLabeling(cs, goal) == NumLabeled(cs) < goal

\* the labeling loop: walks the comparisons and gives each unlabeled one its answer,
\* until the count of labeled comparisons reaches goal or none is left
RECURSIVE LabelLoop(_, _, _, _)
LabelLoop(cs, goal, answers, i) ==
    IF i > Len(cs) \/ ~KeepLabeling(cs, goal) THEN cs
    ELSE IF cs[i].label = "unlabeled"
         THEN LabelLoop([cs EXCEPT ![i].label = answers[i]], goal, answers, i + 1)
         ELSE LabelLoop(cs, goal, answers, i + 1)

\* label_unlabeled_comparisons(goal) -> the number of comparisons it labeled
label_unlabeled_comparisons ==
    /\ \E goal \in 0..MaxGoal :
       \E answers \in [1..Len(comparisons) -> Labels \cup {"unlabeled"}] :
          /\ \A i \in 1..Len(comparisons) : answers[i] \in Answers(comparisons[i])
          /\ comparisons' = LabelLoop(comparisons, goal, answers, 1)
          /\ last_goal' = goal
          /\ last_return' = NumLabeled(comparisons') - NumLabeled(comparisons)
    /\ UNCHANGED <<collector_kind, segments>>
    /\ UNCHANGED <<driverVars, schedVars, netVars>>

\* clear_old_data(): evicts every segment and comparison
clear_old_data ==
    /\ segments' = <<>>
    /\ comparisons' = <<>>
    /\ UNCHANGED <<collector_kind, last_goal, last_return>>
    /\ UNCHANGED <<driverVars, schedVars, netVars>>

----------------------------------------------------------------------------
(* Annealed label schedule (rl_teacher.label_schedules.LabelAnnealer), from its      *)
(* contract, configured as make_comparison_predictor configures it                  *)

\* the command lines that take the LabelAnnealer branch of teach.py:26
AnnealedArgs ==
    [n_labels : {Some(v) : v \in 1..MaxLabels},
     pretrain_labels : OptInts(MaxPretrain),
     num_timesteps : 1..MaxTimesteps]

ScheduleInit ==
    /\ \E a \in AnnealedArgs :
          sched = LabelAnnealer(Some(a.num_timesteps), a.n_labels, PretrainLabelsExpr(a))
    /\ progress = 0
    /\ desired = None
    /\ prev_desired = None
    /\ queried = None

\* n_desired_labels: pretrain_labels at progress 0, linear up to final_labels at
\* final_timesteps, final_labels beyond
n_desired_labels(s, p) ==
    IF p >= s.final_timesteps[1] THEN s.final_labels[1]
    ELSE s.pretrain_labels[1]
         + ((s.final_labels[1] - s.pretrain_labels[1]) * p) \div s.final_timesteps[1]

\* the RL loop reports one more elapsed timestep
TimestepElapsed ==
    /\ progress < MaxProgress
    /\ progress' = progress + 1
    /\ UNCHANGED <<sched, desired, prev_desired, queried>>
    /\ UNCHANGED <<driverVars, collectorVars, netVars>>

\* the predictor reads label_schedule.n_desired_labels
QueryDesiredLabels ==
    /\ desired' = Some(n_desired_labels(sched, progress))
    /\ prev_desired' = desired
    /\ queried' = Some(progress)
    /\ UNCHANGED <<sched, progress>>
    /\ UNCHANGED <<driverVars, collectorVars, netVars>>

----------------------------------------------------------------------------
(* nn.py: FullyConnectedMLP and SimpleConvolveObservationQNet, as tensor shapes *)

Batch == 2            \* rows of the batch handed to run()

RECURSIVE Prod(_)
\* np.prod(shape); the product of the empty shape is 1
Prod(shape) == IF shape = <<>> THEN 1 ELSE Head(shape) * Prod(Tail(shape))

\* math.ceil(a / b) for positive ints
CeilDiv(a, b) == (a + b - 1) \div b

\* nn.py:45-48  after_convolve_shape
AfterConvolveShape(os) ==
    <<CeilDiv(CeilDiv(os[1], 4), 3), CeilDiv(CeilDiv(os[2], 4), 3), 8>>

\* nn.py:17  input_dim = np.prod(obs_shape) + np.prod(act_shape)
InputDim(os, acts) == Prod(os) + Prod(acts)

\* tf.layers.conv2d(..., padding="same") along one spatial axis: the input is padded
\* by the total the kernel needs, then one output per stride step that fits
SamePadding(n, kernel, stride) ==
    IF n % stride = 0 THEN IF kernel > stride THEN kernel - stride ELSE 0
    ELSE IF kernel > (n % stride) THEN kernel - (n % stride) ELSE 0
ConvOut(n, kernel, stride) == (n + SamePadding(n, kernel, stride) - kernel) \div stride + 1

\* tf.layers.conv2d on a (batch, h, w, channels) tensor
Conv2dSame(t, filters, kernel, stride) ==
    <<t[1], ConvOut(t[2], kernel, stride), ConvOut(t[3], kernel, stride), filters>>

\* tf.contrib.layers.flatten: (batch, d1, ..., dk) -> (batch, d1 * ... * dk)
Flatten(t) == <<t[1], Prod(Tail(t))>>

\* nn.py:52-54  a (batch, h, w) observation gets a channel axis
ExpandChannels(t) == IF Len(t) = 3 THEN Append(t, 1) ELSE t

\* nn.py:56-57  the two convolutions of run()
Convolved(obs) == Conv2dSame(Conv2dSame(ExpandChannels(obs), 4, 8, 4), 8, 6, 3)

NetInit ==
    /\ obs_shape \in {<<h, w>> : h \in 1..MaxDim, w \in 1..MaxDim}
                     \cup {<<h, w, c>> : h \in 1..MaxDim, w \in 1..MaxDim, c \in {1, 3}}
    /\ act_shape \in UNION {[1..n -> 1..MaxActDim] : n \in 0..2}
    /\ net_pc = "new"
    /\ input_dim = 0
    /\ features = 0
    /\ run_error = FALSE

\* nn.py:44-49, 12-20  SimpleConvolveObservationQNet(obs_shape, act_shape)
ConstructNet ==
    /\ net_pc = "new"
    /\ input_dim' = InputDim(AfterConvolveShape(obs_shape), act_shape)
    /\ net_pc' = "constructed"
    /\ UNCHANGED <<obs_shape, act_shape, features, run_error>>
    /\ UNCHANGED <<driverVars, collectorVars, schedVars>>

\* nn.py:51-58, 34-36  run(obs, act) on a batch: tf.concat(axis=1) takes tensors of
\* equal rank only, and flat_obs has rank 2
RunNet ==
    /\ net_pc = "constructed"
    /\ LET flat_obs == Flatten(Convolved(<<Batch>> \o obs_shape))
           act == <<Batch>> \o act_shape
       IN IF Len(act) = Len(flat_obs)
          THEN /\ features' = flat_obs[2] + act[2]
               /\ run_error' = FALSE
          ELSE /\ features' = 0
               /\ run_error' = TRUE
    /\ net_pc' = "ran"
    /\ UNCHANGED <<obs_shape, act_shape, input_dim>>
    /\ UNCHANGED <<driverVars, collectorVars, schedVars>>

----------------------------------------------------------------------------
(* Specifications *)

DriverIdle ==
    /\ args = [predictor |-> "rl", agent |-> "ga3c", n_labels |-> None, pretrain_labels |-> None,
               pretrain_iters |-> 0, num_timesteps |-> 0, workers |-> 0,
               no_videos |-> FALSE, restore |-> FALSE]
    /\ pc = "idle"
    /\ summary_writer = FALSE
    /\ env = FALSE
    /\ dirs = {}
    /\ n_pretrain_labels = None
    /\ agent_logger = FALSE
    /\ label_schedule = NoSchedule
    /\ comparison_collector = "none"
    /\ predictor = NoPredictor
    /\ loaded = FALSE
    /\ pretrain = NoPretrain
    /\ Ga3cConfig = Ga3cDefault
    /\ trainer = NoTrainer
    /\ error = "none"

CollectorIdle ==
    /\ collector_kind = "none"
    /\ segments = <<>>
    /\ comparisons = <<>>
    /\ last_goal = 0
    /\ last_return = 0

ScheduleIdle ==
    /\ sched = NoSchedule
    /\ progress = 0
    /\ desired = None
    /\ prev_desired = None
    /\ queried = None

NetIdle ==
    /\ obs_shape = <<>>
    /\ act_shape = <<>>
    /\ net_pc = "idle"
    /\ input_dim = 0
    /\ features = 0
    /\ run_error = FALSE

\* main() of teach.py
Init == DriverInit /\ CollectorIdle /\ ScheduleIdle /\ NetIdle
Next ==
    \/ MakeSummaryWriter
    \/ MakeEnv
    \/ MakeCheckpointDir
    \/ MakeSegmentsDir
    \/ MakeTraditionalPredictor
    \/ ComputePretrainLabels
    \/ MakeAgentLogger
    \/ MakeLabelSchedule
    \/ MakeCollector
    \/ MakeComparisonPredictor
    \/ RestorePredictor
    \/ PretrainClearOldData
    \/ PretrainRollouts
    \/ WrapVideo
    \/ StartGa3c
    \/ StartParallelTrpo
    \/ StartPposgdMpi
    \/ BadAgent
Spec == Init /\ [][Next]_vars

\* the comparison collector under arbitrary calls
InitCollector == DriverIdle /\ CollectorInit /\ ScheduleIdle /\ NetIdle
NextCollector ==
    \/ add_segment
    \/ invent_comparison
    \/ label_unlabeled_comparisons
    \/ clear_old_data
SpecCollector == InitCollector /\ [][NextCollector]_vars

\* the annealed schedule queried as training progresses
InitSchedule == DriverIdle /\ CollectorIdle /\ ScheduleInit /\ NetIdle
NextSchedule ==
    \/ TimestepElapsed
    \/ QueryDesiredLabels
SpecSchedule == InitSchedule /\ [][NextSchedule]_vars

\* the convolutional network built and run on every shape
InitNet == DriverIdle /\ CollectorIdle /\ ScheduleIdle /\ NetInit
NextNet ==
    \/ ConstructNet
    \/ RunNet
SpecNet == InitNet /\ [][NextNet]_vars

----------------------------------------------------------------------------
(* Claims about main() (Spec) *)

\* C1: an unrecognized --predictor never reaches a trainer, and when the error for it
\* is raised nothing has been allocated: no directory, no summary writer, no environment,
\* no label schedule, no collector, no reward network.
C1_BadPredictorAllocatesNothing ==
    args.predictor \notin PredictorKinds =>
        /\ pc # "training"
        /\ error = "ValueError: --predictor" =>
              /\ dirs = {}
              /\ ~summary_writer
              /\ ~env
              /\ label_schedule = NoSchedule
              /\ comparison_collector = "none"
              /\ predictor = NoPredictor

\* C2: when the error for an unknown --agent is raised, no directory has been created,
\* no predictor constructed, and neither pretraining, checkpoint restore nor video
\* wrapping has run.
C2_BadAgentAllocatesNothing ==
    error = "ValueError: args.agent" =>
        /\ dirs = {}
        /\ predictor = NoPredictor
        /\ ~loaded
        /\ ~pretrain.called

\* C3: once pretrain_predictor has ended it has returned, having cleared the collector,
\* sampled 2 x n_pretrain_labels segments with the workers it was passed, added them
\* all, invented n_pretrain_labels comparisons, labeled to goal n_pretrain_labels and
\* run n_pretrain_iters training steps.
C3_PretrainRunsAllSteps ==
    (pretrain.returned \/ pretrain.raised) =>
        /\ pretrain.returned
        /\ pretrain.cleared
        /\ pretrain.sampled = 2 * n_pretrain_labels[1]
        /\ pretrain.sample_workers = Some(args.workers)
        /\ pretrain.added = pretrain.sampled
        /\ pretrain.invented = n_pretrain_labels[1]
        /\ pretrain.label_goal = n_pretrain_labels
        /\ pretrain.trained = args.pretrain_iters

\* C4: once make_comparison_predictor is past its schedule selection, no label budget
\* has given the constant schedule with pretrain_labels = n_pretrain_labels, a label
\* budget has given the annealed schedule with final_labels = n_labels, pretrain_labels
\* = n_pretrain_labels and final_timesteps = the configured timesteps; an annealed
\* schedule always has a positive final_labels.
C4_ScheduleChosenByBudget ==
    /\ (agent_logger /\ pc # "mcp_label_schedule") =>
          /\ args.n_labels = None =>
                label_schedule = ConstantLabelSchedule(n_pretrain_labels)
          /\ Truthy(args.n_labels) =>
                label_schedule = LabelAnnealer(Some(args.num_timesteps), args.n_labels,
                                               n_pretrain_labels)
    /\ label_schedule.kind = "annealed" => label_schedule.final_labels[1] > 0

\* C5: with predictor synth or human, once main() is past line 109 it holds an integer
\* pretrain label count for every combination of --n_labels and --pretrain_labels: the
\* supplied --pretrain_labels, else a quarter of the label budget; no label budget
\* gives the constant schedule and no failure.
C5_PretrainLabelsAlwaysDefined ==
    (args.predictor \in {"synth", "human"}
       /\ pc \notin {"make_summary_writer", "make_env", "makedirs_checkpoints",
                     "makedirs_segments", "make_predictor"}) =>
        /\ n_pretrain_labels # None
        /\ args.pretrain_labels # None => n_pretrain_labels = args.pretrain_labels
        /\ (args.pretrain_labels = None /\ args.n_labels # None) =>
              n_pretrain_labels = Some(args.n_labels[1] \div 4)
        /\ args.n_labels = None => error = "none"

\* C9: with predictor synth or human a trainer is started only with the comparison
\* predictor initialised one way: with --restore the checkpoint is loaded and no
\* pretraining step has run, without it pretrain_predictor has returned after all
\* n_pretrain_iters training steps and no checkpoint was loaded.
C9_TrainerOnlyAfterRestoreOrPretrain ==
    (args.predictor \in {"synth", "human"} /\ trainer # NoTrainer) =>
        /\ trainer.predictor.kind = "comparison"
        /\ IF args.restore
           THEN loaded /\ pretrain = NoPretrain
           ELSE /\ ~loaded
                /\ pretrain.returned
                /\ pretrain.trained = args.pretrain_iters

\* a synth/human run that restored the checkpoint and has started its trainer
C9_Witness ==
    /\ args.predictor \in {"synth", "human"}
    /\ args.restore
    /\ loaded
    /\ pc = "training"
    /\ trainer.name = args.agent
    /\ trainer.predictor.kind = "comparison"

\* C10: with predictor rl there is never a collector, a label schedule, a pretraining
\* step or a checkpoint restore, whatever the label and restore options; the run fails
\* only on an unknown agent, and the trainer started is the one --agent names, given
\* the pass-through predictor, wrapped in the video recorder unless videos are off.
C10_TraditionalPredictorOnly ==
    args.predictor = "rl" =>
        /\ comparison_collector = "none"
        /\ label_schedule = NoSchedule
        /\ ~agent_logger
        /\ ~loaded
        /\ pretrain = NoPretrain
        /\ predictor.kind \in {"none", "traditional"}
        /\ pc = "error" => error = "ValueError: args.agent" /\ args.agent \notin AgentKinds
        /\ (trainer # NoTrainer) = (pc = "training")
        /\ pc = "training" =>
              /\ trainer.name = args.agent
              /\ trainer.predictor = [kind |-> "traditional", wrapped |-> ~args.no_videos]

\* an rl run with a label budget and --restore whose trainer got the wrapped predictor
C10_Witness ==
    /\ args.predictor = "rl"
    /\ args.restore
    /\ Truthy(args.n_labels)
    /\ pc = "training"
    /\ trainer.name = "parallel_trpo"
    /\ trainer.predictor.wrapped

----------------------------------------------------------------------------
(* Claim about the comparison collector (SpecCollector) *)

\* C7: label_unlabeled_comparisons(goal=N) returns at most N newly labeled
\* comparisons, and a comparison that has a terminal label keeps it: a label changes
\* only from unlabeled, and never back.
C7_LabelOnceAtMostGoal ==
    /\ [](last_return <= last_goal)
    /\ [][\A i \in 1..Len(comparisons) :
             (i <= Len(comparisons') /\ comparisons[i].label # "unlabeled") =>
                 comparisons'[i].label = comparisons[i].label]_vars

\* a labeling call with goal 2 that found one comparison labeled by an earlier call,
\* left it alone and labeled the other one
C7_Witness ==
    /\ last_goal = 2
    /\ last_return = 1
    /\ Len(comparisons) = 2
    /\ NumLabeled(comparisons) = 2

----------------------------------------------------------------------------
(* Claim about the annealed label schedule (SpecSchedule) *)

----------------------------------------------------------------------------
(* Claim about the convolutional network (SpecNet) *)

\* C8: for every observation shape and every action shape, run() produces exactly the
\* number of features the MLP head was sized for at construction,
\* ceil(ceil(H/4)/3) * ceil(ceil(W/4)/3) * 8 + prod(act_shape).
C8_HeadSizedForRun ==
    /\ net_pc \in {"constructed", "ran"} =>
          input_dim = CeilDiv(CeilDiv(obs_shape[1], 4), 3) * CeilDiv(CeilDiv(obs_shape[2], 4), 3) * 8
                      + Prod(act_shape)
    /\ net_pc = "ran" => ~run_error /\ features = input_dim

====
